---- MODULE Spec2Model ----
(***************************************************************************)
(* Attendance backend (thodaniel3/attendance-backend).                     *)
(*                                                                         *)
(* The repository holds five revisions of one Express server:              *)
(*   "index"     src/index.js                                              *)
(*   "part_000"  src/unnamed/part_000                                      *)
(*   "part_001a" src/unnamed/part_001, lines 1-196   (ES module server)    *)
(*   "part_001b" src/unnamed/part_001, lines 198-325 (CommonJS server)     *)
(*   "part_002"  src/unnamed/part_002                                      *)
(* One of them is deployed (rev).  A request handler is a process whose    *)
(* steps are the stretches of code between two awaits of a store call; the *)
(* store executes each call atomically and may fail it.                    *)
(***************************************************************************)
EXTENDS Integers, Sequences, FiniteSets, TLC

VARIABLES rev, env, phase, exitCode, uniqueIndex, tz, now,
          students, attendance, photos, qrs, req

vars == <<rev, env, phase, exitCode, uniqueIndex, tz, now,
          students, attendance, photos, qrs, req>>

\* ---------------------------------------------------------------- bounds
NumReqs == 2          \* request slots (requests in one behaviour)
MaxTime == 2          \* last instant of the clock
SlotsPerDay == 2      \* clock instants per calendar day

Reqs == 1..NumReqs

\* -------------------------------------------------------------- constants
NULL == "null"                              \* JS null / undefined
UNKNOWN == "Unknown"
EXTERNAL_SCANNER == "external-scanner"
DEFAULT_ADMIN_SECRET == "myattendancesecret2025"
PHOTO_BUCKET == "student-photos"
QR_BUCKET == "qr-codes"
UPSTREAM == "upstream error"                \* error.message of a failed call
DUPLICATE_KEY == "duplicate key value violates unique constraint"

Revs == {"index", "part_000", "part_001a", "part_001b", "part_002"}
ConfigKeys == {"STORE_URL", "STORE_KEY", "FRONTEND_URL", "ADMIN"}
ConfiguredPin == "1234"                     \* the value of ADMIN when it is set

\* ------------------------------------------------------------- startup
\* The module-level configuration checks: TRUE when the process goes on to
\* app.listen, FALSE when it exits (process.exit(1), or createClient throwing
\* on a missing URL or key in the revisions that do not check first).
StartupOk(rv, e) ==
    CASE rv = "part_000" -> ConfigKeys \subseteq e
      [] rv \in {"index", "part_001a"} ->
            {"STORE_URL", "STORE_KEY", "FRONTEND_URL"} \subseteq e
      [] OTHER -> {"STORE_URL", "STORE_KEY"} \subseteq e

\* ADMIN_PIN (ADMIN_SECRET in part_001b, which falls back to a default).
AdminSecret(rv, e) ==
    IF "ADMIN" \in e THEN ConfiguredPin
    ELSE IF rv = "part_001b" THEN DEFAULT_ADMIN_SECRET ELSE NULL

\* ---------------------------------------------------------------- clock
\* The server's offset from UTC, in clock instants.  Only part_000 reads local
\* time (setHours); the other revisions work on UTC date strings.
TimeZones == {-1, 0, 1}
UTCDay(t) == t \div SlotsPerDay
LocalDay(t) == (t + tz) \div SlotsPerDay
\* Mutant: midnight taken in UTC, whatever the server's time zone.
StartOfDayUTC(t) == UTCDay(t) * SlotsPerDay

\* new Date(); setHours(0,0,0,0): the instant of local midnight today.
StartOfDay(t) == LocalDay(t) * SlotsPerDay - tz
\* new Date(); setHours(23,59,59,999): the last instant of the local day.
EndOfDay(t) == StartOfDay(t) + SlotsPerDay - 1

\* ------------------------------------------------------------- requests
Idle == [kind |-> "none", pc |-> "idle",
         student_id |-> NULL, lecturer |-> NULL, course |-> NULL, cred |-> NULL,
         missing |-> NULL, photo |-> NULL,
         student |-> NULL, photo_url |-> NULL, qr_code_url |-> NULL,
         today |-> 0,
         status |-> 0, ok |-> NULL, error |-> NULL,
         seen |-> FALSE, calls |-> 0, failedAt |-> {}, afterFail |-> 0]

\* res.status(s).json({ok, error}) / res.send(html): the request is over.
Respond(q, s, ok, error) ==
    [q EXCEPT !.pc = "done", !.status = s, !.ok = ok, !.error = error]

\* History of a request: calls counts the upstream calls it has made, failedAt
\* names the ones that failed (by the step that made them), afterFail counts the
\* calls made after a failed one, seen says that a record of the student made
\* on the same day was in the store when the request arrived.
Called(q, fail) ==
    [q EXCEPT !.calls = @ + 1,
              !.failedAt = IF fail THEN @ \cup {q.pc} ELSE @,
              !.afterFail = IF q.failedAt # {} THEN @ + 1 ELSE @]

Init ==
    /\ rev \in Revs
    /\ env \in SUBSET ConfigKeys
    /\ phase = "boot"
    /\ exitCode = 0
    /\ uniqueIndex \in BOOLEAN
    /\ tz \in (IF rev = "part_000" THEN TimeZones ELSE {0})
    /\ now = 0
    /\ students = <<>>
    /\ attendance = <<>>
    /\ photos = {}
    /\ qrs = {}
    /\ req = [r \in Reqs |-> Idle]

\* The store as the repository uses it: no uniqueness constraint.
InitAsCoded == Init /\ ~uniqueIndex

Boot ==
    /\ phase = "boot"
    /\ IF StartupOk(rev, env)
         THEN phase' = "listening" /\ exitCode' = 0
         ELSE phase' = "exited" /\ exitCode' = 1
    /\ UNCHANGED <<rev, env, uniqueIndex, tz, now,
                   students, attendance, photos, qrs, req>>

Tick ==
    /\ phase = "listening"
    /\ now < MaxTime
    /\ now' = now + 1
    /\ UNCHANGED <<rev, env, phase, exitCode, uniqueIndex, tz,
                   students, attendance, photos, qrs, req>>

\* ----------------------------------------------------- attendance store
\* supabase.from('attendance').insert([...]): the row as stored.  created_at is
\* assigned by the store; part_001b passes its own date column.
AttendanceRow(rv, q, t) ==
    [student_id |-> q.student_id, lecturer |-> q.lecturer, course |-> q.course,
     created_at |-> t,
     date |-> IF rv = "part_001b" THEN UTCDay(q.today) ELSE -1]

\* The uniqueness constraint of section 5, when the store has one: the key is
\* (student, course, lecturer, calendar day of created_at).
SameKey(a, b) ==
    /\ a.student_id = b.student_id
    /\ a.course = b.course
    /\ a.lecturer = b.lecturer
    /\ UTCDay(a.created_at) = UTCDay(b.created_at)

\* Mutant: a store without the constraint.
StoreNeverRejects(row) == FALSE

StoreRejects(row) ==
    uniqueIndex /\ \E i \in 1..Len(attendance) : SameKey(attendance[i], row)

\* The two same-day filters on created_at, for a request made at instant t:
\*   part_000   .gte('created_at', startOfDay.toISOString())
\*              .lte('created_at', endOfDay.toISOString())
\*   part_001a  .gte('created_at', today), today the UTC date of t
InLocalDayRange(c, t) == c >= StartOfDay(t) /\ c <= EndOfDay(t)
FromUTCDate(c, t) == c >= UTCDay(t) * SlotsPerDay

\* The existence query of each revision, as the store evaluates it:
\*   part_000   .eq(student_id).eq(course).eq(lecturer).gte(startOfDay).lte(endOfDay)
\*   part_001a  .eq(student_id).gte('created_at', today)
\*   part_001b  .eq(student_id).eq('date', today)
Existing(rv, q) ==
    {i \in 1..Len(attendance) :
        /\ attendance[i].student_id = q.student_id
        /\ CASE rv = "part_000" ->
                  /\ attendance[i].course = q.course
                  /\ attendance[i].lecturer = q.lecturer
                  /\ InLocalDayRange(attendance[i].created_at, q.today)
             [] rv = "part_001b" -> attendance[i].date = UTCDay(q.today)
             [] OTHER -> FromUTCDate(attendance[i].created_at, q.today)}

\* A record of the student made on the (UTC) day of instant t is in the store.
RecordedToday(sid, t) ==
    \E i \in 1..Len(attendance) :
        /\ attendance[i].student_id = sid
        /\ UTCDay(attendance[i].created_at) = UTCDay(t)

HasDupCheck(rv, kind) ==
    \/ rv \in {"part_000", "part_001b"} /\ kind = "attendance"
    \/ rv = "part_001a"

\* ------------------------------------------------- POST /api/attendance
\* The handler up to its first await: validation, authorization, defaults.
AttendancePost(rv, e, q, t) ==
    LET secret == AdminSecret(rv, e)
        d == [q EXCEPT !.today = t,
                       !.lecturer = IF rv = "part_001b" THEN NULL
                                    ELSE IF q.lecturer = NULL THEN UNKNOWN ELSE @,
                       !.course = IF rv = "part_001b" THEN NULL
                                  ELSE IF q.course = NULL THEN UNKNOWN ELSE @]
    IN CASE rv = "part_000" ->
             IF q.student_id = NULL \/ q.lecturer = NULL \/ q.course = NULL
               THEN Respond(q, 400, "false", "Missing required fields")
             ELSE IF q.cred # secret
               THEN Respond(q, 403, "false", "Invalid admin PIN")
             ELSE [d EXCEPT !.pc = "check"]
         [] rv \in {"index", "part_001a"} ->
             IF q.student_id = NULL
               THEN Respond(q, 400, "false", "Missing student_id")
             ELSE IF secret = NULL \/ q.cred = NULL \/ q.cred # secret
               THEN Respond(q, 403, "false", "Forbidden: invalid admin pin")
             ELSE [d EXCEPT !.pc = IF rv = "index" THEN "insert" ELSE "check"]
         [] rv = "part_001b" ->
             IF q.cred # secret
               THEN Respond(q, 401, "false", "Unauthorized")
             ELSE IF q.student_id = NULL
               THEN Respond(q, 400, "false", "Missing student_id")
             ELSE [d EXCEPT !.pc = "check"]
         [] OTHER ->
             IF q.student_id = NULL
               THEN Respond(q, 400, "false", "Missing student_id")
             ELSE [d EXCEPT !.pc = "insert"]

StudentIds == {"s1"}
Lecturers == {"Dr. Okoro"}
Courses == {"CS101"}
Creds == {ConfiguredPin, DEFAULT_ADMIN_SECRET}

\* Slots are taken in order: the requests of a behaviour are numbered by arrival.
Free(r) ==
    /\ phase = "listening"
    /\ req[r].pc = "idle"
    /\ \A p \in Reqs : p < r => req[p].pc # "idle"

PostAttendance(r, sids, lecs, crss, creds) ==
    /\ Free(r)
    /\ \E sid \in sids, lec \in lecs, crs \in crss, cred \in creds :
         req' = [req EXCEPT ![r] =
                   AttendancePost(rev, env,
                       [Idle EXCEPT !.kind = "attendance", !.student_id = sid,
                                    !.lecturer = lec, !.course = crs, !.cred = cred,
                                    !.seen = RecordedToday(sid, now)],
                       now)]
    /\ UNCHANGED <<rev, env, phase, exitCode, uniqueIndex, tz, now,
                   students, attendance, photos, qrs>>

\* Any request body.
AttStart(r) ==
    PostAttendance(r, StudentIds \cup {NULL}, Lecturers \cup {NULL},
                   Courses \cup {NULL}, Creds \cup {NULL})

\* A submission for one student and lecturer by a client that holds the secret.
Submit(r) ==
    PostAttendance(r, StudentIds, Lecturers, Courses \cup {NULL},
                   {AdminSecret(rev, env)})

\* --------------------------------------------- GET /api/attendance/mark
AttendanceMark(rv, e, q, t) ==
    IF q.student_id = NULL
      THEN Respond(q, 400, "html", "Missing student_id in query")
    ELSE IF q.cred = NULL \/ q.cred # AdminSecret(rv, e)
      THEN Respond(q, 200, "html", "Confirm attendance")
    ELSE [q EXCEPT !.today = t, !.lecturer = EXTERNAL_SCANNER, !.course = UNKNOWN,
                   !.pc = IF rv = "index" THEN "insert" ELSE "check"]

MarkStart(r) ==
    /\ Free(r)
    /\ rev \in {"index", "part_001a"}
    /\ \E sid \in StudentIds \cup {NULL}, pin \in Creds \cup {NULL} :
         req' = [req EXCEPT ![r] =
                   AttendanceMark(rev, env,
                       [Idle EXCEPT !.kind = "mark", !.student_id = sid, !.cred = pin],
                       now)]
    /\ UNCHANGED <<rev, env, phase, exitCode, uniqueIndex, tz, now,
                   students, attendance, photos, qrs>>

\* ------------------------------------------ the existence query returns
\* The handler from the answer of the existence query to its next await.
AfterCheck(rv, q, fail, found) ==
    LET c == Called(q, fail)
    IN IF q.kind = "mark"
         THEN IF fail THEN Respond(c, 500, "html", "Error checking attendance")
              ELSE IF found THEN Respond(c, 200, "html", "Attendance already taken today")
              ELSE [c EXCEPT !.pc = "insert"]
       ELSE CASE rv = "part_001b" ->
                   IF ~fail /\ found
                     THEN Respond(c, 200, "true", "Already recorded")
                     ELSE [c EXCEPT !.pc = "insert"]
              [] rv = "part_000" ->
                   IF fail THEN Respond(c, 500, "false", UPSTREAM)
                   ELSE IF found
                     THEN Respond(c, 200, "false",
                                  "Attendance already taken for this course today")
                   ELSE [c EXCEPT !.pc = "insert"]
              [] OTHER ->
                   IF fail THEN Respond(c, 500, "false", UPSTREAM)
                   ELSE IF found
                     THEN Respond(c, 200, "false", "Attendance already taken today")
                   ELSE [c EXCEPT !.pc = "insert"]

AttCheck(r) ==
    /\ req[r].pc = "check"
    /\ req[r].kind \in {"attendance", "mark"}
    /\ \E fail \in BOOLEAN :
         req' = [req EXCEPT ![r] =
                   AfterCheck(rev, req[r], fail, Existing(rev, req[r]) # {})]
    /\ UNCHANGED <<rev, env, phase, exitCode, uniqueIndex, tz, now,
                   students, attendance, photos, qrs>>

\* --------------------------------------------------- the insert returns
\* err is the store's error message, NULL when the insert succeeded.
AfterInsert(q, err) ==
    LET c == Called(q, err # NULL)
    IN IF q.kind = "mark"
         THEN IF err # NULL THEN Respond(c, 500, "html", "Failed to record attendance")
              ELSE Respond(c, 200, "html", "Attendance recorded")
         ELSE IF err # NULL THEN Respond(c, 500, "false", err)
              ELSE Respond(c, 200, "true", NULL)

\* Mutant: a conditional insert, which leaves the table alone when it already
\* holds a row with the same key.
InsertIfAbsent(table, row, fail) ==
    IF fail \/ \E i \in 1..Len(table) : SameKey(table[i], row)
      THEN table ELSE Append(table, row)

\* The store executes the insert: the row is appended unless the call fails.
InsertAttendance(table, row, fail) ==
    IF fail THEN table ELSE Append(table, row)

AttInsert(r) ==
    /\ req[r].pc = "insert"
    /\ req[r].kind \in {"attendance", "mark"}
    /\ LET row == AttendanceRow(rev, req[r], now)
       IN \E f \in BOOLEAN :
            LET err == IF StoreRejects(row) THEN DUPLICATE_KEY
                       ELSE IF f THEN UPSTREAM ELSE NULL
            IN /\ attendance' = InsertAttendance(attendance, row, err # NULL)
               /\ req' = [req EXCEPT ![r] = AfterInsert(req[r], err)]
    /\ UNCHANGED <<rev, env, phase, exitCode, uniqueIndex, tz, now,
                   students, photos, qrs>>

NextAtt ==
    \/ Boot
    \/ Tick
    \/ \E r \in Reqs : AttStart(r)
    \/ \E r \in Reqs : MarkStart(r)
    \/ \E r \in Reqs : AttCheck(r)
    \/ \E r \in Reqs : AttInsert(r)

SpecAtt == InitAsCoded /\ [][NextAtt]_vars

\* Concurrent submissions, against a store with or without the uniqueness
\* constraint.
NextRace ==
    \/ Boot
    \/ Tick
    \/ \E r \in Reqs : Submit(r)
    \/ \E r \in Reqs : AttCheck(r)
    \/ \E r \in Reqs : AttInsert(r)

SpecRace == Init /\ [][NextRace]_vars

\* ------------------------------------------------------------ blob store
\* `photo_${student.id}.png` (part_001b: `student-photos/${studentId}.${ext}`).
PhotoPath(rv, id) ==
    IF rv = "part_001b" THEN "student-photos/" \o id \o ".png"
    ELSE "photo_" \o id \o ".png"

\* `qr_${student.id}.png` (part_001b: `qr-codes/${studentId}.png`).
QrPath(rv, id) ==
    IF rv = "part_001b" THEN "qr-codes/" \o id \o ".png"
    ELSE "qr_" \o id \o ".png"

\* supabase.storage.from(bucket).getPublicUrl(path): computed from the names
\* alone, whether or not an object is stored there.
getFileUrl(bucket, path) == "https://store/" \o bucket \o "/" \o path

\* storage.from(bucket).upload(path, bytes, {upsert: true}) on a bucket held as
\* a set of objects: the object at that path is replaced.
Upload(bucket, path, bytes, fail) ==
    IF fail THEN bucket
    ELSE {o \in bucket : o.path # path} \cup {[path |-> path, bytes |-> bytes]}

\* The text the QR image encodes.
ScanTarget(rv, id) ==
    CASE rv = "part_002" -> "{\"id\":\"" \o id \o "\"}"
      [] rv = "part_001b" -> "attendance://" \o id
      [] OTHER -> "https://frontend/scan?id=" \o id

\* ---------------------------------------------------------- students table
\* insert([{name, username, email, matric_number}]).select().single(): the store
\* assigns the identifier.  by and updates are history: the request that
\* inserted the row and the number of updates applied to it.
NewStudentId(table) == "s" \o ToString(Len(table) + 1)

InsertStudent(table, r, fail) ==
    IF fail THEN table
    ELSE Append(table, [id |-> NewStudentId(table), photo_url |-> NULL,
                        qr_code_url |-> NULL, by |-> r, updates |-> 0])

\* update(fields).eq('id', id); fields gives the new value of each column, or
\* the row's own value for a column the call leaves out.
UpdateStudent(table, id, photo_url, qr_code_url, fail) ==
    IF fail THEN table
    ELSE [i \in DOMAIN table |->
            IF table[i].id = id
              THEN [table[i] EXCEPT !.photo_url = photo_url,
                                    !.qr_code_url = qr_code_url,
                                    !.updates = @ + 1]
              ELSE table[i]]

Row(id) == CHOOSE i \in DOMAIN students : students[i].id = id

\* ------------------------------------------------------ POST /api/student
\* (part_001b: POST /api/create-student)
Fields == {"name", "username", "email", "matric_number"}
Photos == {"imgA"}

\* Mutant: a validation that leaves matric_number out of its condition.
StudentPostUnchecked(q) ==
    IF q.missing \notin {NULL, "matric_number"}
      THEN Respond(q, 400, "false", "Missing required fields")
      ELSE [q EXCEPT !.pc = "reg_insert"]

\* The handler up to its first await: validation of the four fields.
StudentPost(q) ==
    IF q.missing # NULL
      THEN Respond(q, 400, "false", "Missing required fields")
      ELSE [q EXCEPT !.pc = "reg_insert"]

RegStart(r) ==
    /\ Free(r)
    /\ \E m \in Fields \cup {NULL}, ph \in Photos \cup {NULL} :
         req' = [req EXCEPT ![r] =
                   StudentPost([Idle EXCEPT !.kind = "student",
                                            !.missing = m, !.photo = ph])]
    /\ UNCHANGED <<rev, env, phase, exitCode, uniqueIndex, tz, now,
                   students, attendance, photos, qrs>>

\* After the insert: a store error ends the request (part_001b throws it into
\* the catch); otherwise the photo upload or the QR generation is next.
AfterStudentInsert(rv, q, id, fail) ==
    LET c == Called(q, fail)
    IN IF fail THEN Respond(c, 500, "false", UPSTREAM)
       ELSE [c EXCEPT !.student = id,
                      !.pc = IF q.photo # NULL THEN "photo_upload"
                             ELSE IF rv = "part_001b" THEN "qr_fetch"
                             ELSE "qr_upload"]

RegInsert(r) ==
    /\ req[r].pc = "reg_insert"
    /\ \E fail \in BOOLEAN :
         /\ students' = InsertStudent(students, r, fail)
         /\ req' = [req EXCEPT ![r] =
                      AfterStudentInsert(rev, req[r], NewStudentId(students), fail)]
    /\ UNCHANGED <<rev, env, phase, exitCode, uniqueIndex, tz, now,
                   attendance, photos, qrs>>

\* Mutant: the public URL of the uploaded photo is never taken.
AfterPhotoUploadNoUrl(rv, q, fail) ==
    LET c == Called(q, fail)
    IN IF rv = "part_001b" /\ fail THEN Respond(c, 500, "false", UPSTREAM)
       ELSE [c EXCEPT !.pc = IF rv = "part_001b" THEN "update_photo"
                             ELSE "qr_upload"]

\* After the photo upload:
\*   index, part_001a, part_002  if (!uploadErr) photo_url = getFileUrl(...)
\*   part_000                    the error is not read
\*   part_001b                   uploadToStorage throws it
AfterPhotoUpload(rv, q, fail) ==
    LET c == Called(q, fail)
        url == getFileUrl(PHOTO_BUCKET, PhotoPath(rv, q.student))
    IN CASE rv = "part_001b" ->
              IF fail THEN Respond(c, 500, "false", UPSTREAM)
              ELSE [c EXCEPT !.photo_url = url, !.pc = "update_photo"]
         [] rv = "part_000" -> [c EXCEPT !.photo_url = url, !.pc = "qr_upload"]
         [] OTHER ->
              [c EXCEPT !.photo_url = IF fail THEN NULL ELSE url,
                        !.pc = "qr_upload"]

PhotoUpload(r) ==
    /\ req[r].pc = "photo_upload"
    /\ \E fail \in BOOLEAN :
         /\ photos' = Upload(photos, PhotoPath(rev, req[r].student),
                             req[r].photo, fail)
         /\ req' = [req EXCEPT ![r] = AfterPhotoUpload(rev, req[r], fail)]
    /\ UNCHANGED <<rev, env, phase, exitCode, uniqueIndex, tz, now,
                   students, attendance, qrs>>

\* part_001b: update({ photo_url: photoUrl }) right after the photo upload; the
\* result is not read.
UpdatePhoto(r) ==
    /\ req[r].pc = "update_photo"
    /\ \E fail \in BOOLEAN :
         /\ students' = UpdateStudent(students, req[r].student, req[r].photo_url,
                                      students[Row(req[r].student)].qr_code_url, fail)
         /\ req' = [req EXCEPT ![r] =
                      [Called(req[r], fail) EXCEPT !.pc = "qr_fetch"]]
    /\ UNCHANGED <<rev, env, phase, exitCode, uniqueIndex, tz, now,
                   attendance, photos, qrs>>

\* part_001b: the QR image is fetched from api.qrserver.com; a rejected fetch
\* is thrown into the catch.
QrFetch(r) ==
    /\ req[r].pc = "qr_fetch"
    /\ \E fail \in BOOLEAN :
         req' = [req EXCEPT ![r] =
                   LET c == Called(req[r], fail)
                   IN IF fail THEN Respond(c, 500, "false", UPSTREAM)
                      ELSE [c EXCEPT !.pc = "qr_upload"]]
    /\ UNCHANGED <<rev, env, phase, exitCode, uniqueIndex, tz, now,
                   students, attendance, photos, qrs>>

\* After the QR upload:
\*   index, part_001a   if (qrUploadErr) return 500
\*   part_000, part_002 the error is not read
\*   part_001b          uploadToStorage throws it
AfterQrUpload(rv, q, fail) ==
    LET c == Called(q, fail)
        url == getFileUrl(QR_BUCKET, QrPath(rv, q.student))
    IN IF fail /\ rv = "part_001b" THEN Respond(c, 500, "false", UPSTREAM)
       ELSE IF fail /\ rv \in {"index", "part_001a"}
         THEN Respond(c, 500, "false", "Failed to upload QR code")
       ELSE [c EXCEPT !.qr_code_url = url, !.pc = "update"]

QrUpload(r) ==
    /\ req[r].pc = "qr_upload"
    /\ \E fail \in BOOLEAN :
         /\ qrs' = Upload(qrs, QrPath(rev, req[r].student),
                          ScanTarget(rev, req[r].student), fail)
         /\ req' = [req EXCEPT ![r] = AfterQrUpload(rev, req[r], fail)]
    /\ UNCHANGED <<rev, env, phase, exitCode, uniqueIndex, tz, now,
                   students, attendance, photos>>

\* update({ photo_url, qr_code_url }) (part_001b: update({ qr_code_url })); the
\* result is not read, and res.json({ ok: true, student }) follows.
AfterUpdate(q, fail) ==
    Respond(Called(q, fail), 200, "true", NULL)

Update(r) ==
    /\ req[r].pc = "update"
    /\ \E fail \in BOOLEAN :
         /\ students' = UpdateStudent(students, req[r].student,
                           IF rev = "part_001b"
                             THEN students[Row(req[r].student)].photo_url
                             ELSE req[r].photo_url,
                           req[r].qr_code_url, fail)
         /\ req' = [req EXCEPT ![r] = AfterUpdate(req[r], fail)]
    /\ UNCHANGED <<rev, env, phase, exitCode, uniqueIndex, tz, now,
                   attendance, photos, qrs>>

NextReg ==
    \/ Boot
    \/ \E r \in Reqs : RegStart(r)
    \/ \E r \in Reqs : RegInsert(r)
    \/ \E r \in Reqs : PhotoUpload(r)
    \/ \E r \in Reqs : UpdatePhoto(r)
    \/ \E r \in Reqs : QrFetch(r)
    \/ \E r \in Reqs : QrUpload(r)
    \/ \E r \in Reqs : Update(r)

SpecReg == InitAsCoded /\ [][NextReg]_vars

Next == NextAtt \/ NextReg

Spec == Init /\ [][Next]_vars

\* ======================================================================
\* Claims
\* ======================================================================
WrongCred(q) == q.cred = NULL \/ q.cred # AdminSecret(rev, env)
CorrectCred(q) == ~WrongCred(q)
NoCallFailed(q) == q.failedAt = {}

\* C1 (on revision part_002, for requests that name a student and whose
\* upstream calls all succeed): a POST /api/attendance whose admin credential is
\* absent or differs from the configured secret makes no store call (so inserts
\* no record) and is answered with status 403.
C1_WrongCredentialRejected ==
    rev = "part_002" =>
      \A r \in Reqs :
        (/\ req[r].kind = "attendance" /\ req[r].student_id # NULL
         /\ WrongCred(req[r]) /\ NoCallFailed(req[r]))
          => /\ req[r].calls = 0
             /\ req[r].pc = "done" => req[r].status = 403

\* C2 (on revision index, for requests whose upstream calls all succeed): a
\* POST /api/attendance with the correct credential that arrives when a record
\* of the same student made the same day is in the store is answered with
\* status 200, ok:false and the error 'Attendance already taken today'.
C2_SecondSubmissionRefused ==
    rev = "index" =>
      \A r \in Reqs :
        (/\ req[r].kind = "attendance" /\ CorrectCred(req[r]) /\ req[r].seen
         /\ NoCallFailed(req[r]) /\ req[r].pc = "done")
          => /\ req[r].status = 200
             /\ req[r].ok = "false"
             /\ req[r].error = "Attendance already taken today"

\* C7 (on revision index): the server listens only if the store URL, the store
\* key, the frontend URL and the admin credential are all configured; with any
\* of them absent the process exits with a non-zero status instead.
C7_ListensOnlyFullyConfigured ==
    rev = "index" =>
      /\ phase = "listening" => ConfigKeys \subseteq env
      /\ phase = "exited" => exitCode # 0
      /\ (phase # "boot" /\ ~(ConfigKeys \subseteq env)) => phase = "exited"

\* A submission that ended with { ok: true, attendance }.
Recorded(q) ==
    /\ q.kind = "attendance" /\ q.pc = "done"
    /\ q.status = 200 /\ q.ok = "true" /\ q.error = NULL

SameSubmission(p, q) ==
    /\ p.student_id = q.student_id /\ p.student_id # NULL
    /\ p.lecturer = q.lecturer
    /\ p.course = q.course

\* C3: when the store rejects an insert that would repeat a (student, course,
\* lecturer, day) key, no two attendance records share such a key, however the
\* submissions interleave.
C3_AtMostOnePerKey ==
    uniqueIndex =>
      \A i, j \in 1..Len(attendance) :
        i # j => ~SameKey(attendance[i], attendance[j])

\* Two submissions for the same key raced past the existence check; the store
\* took one and rejected the other.
C3_Witness ==
    /\ uniqueIndex
    /\ HasDupCheck(rev, "attendance")
    /\ \E p, q \in Reqs :
         /\ p # q
         /\ SameSubmission(req[p], req[q])
         /\ Recorded(req[p])
         /\ req[q].pc = "done" /\ req[q].status = 500
         /\ req[q].error = DUPLICATE_KEY
         /\ req[q].calls = 2 /\ req[q].failedAt = {"insert"}
    /\ Len(attendance) = 1

\* C8: as coded the insert is a store call of its own, made after the existence
\* query has answered and not conditional on it: every submission that ends
\* ok:true has appended its record, so the store holds as many records as
\* submissions have succeeded (two for the same student and day when two
\* requests both pass the check before either inserts).
C8_EverySuccessInserts ==
    Len(attendance) = Cardinality({r \in Reqs : Recorded(req[r])})

\* Both requests arrived at the same instant, both existence queries answered
\* "none" and both inserts were made at that instant: two records of one
\* student, course, lecturer and day.
C8_Witness ==
    /\ ~uniqueIndex
    /\ HasDupCheck(rev, "attendance")
    /\ \E p, q \in Reqs :
         /\ p # q
         /\ SameSubmission(req[p], req[q])
         /\ Recorded(req[p]) /\ Recorded(req[q])
         /\ req[p].calls = 2 /\ req[q].calls = 2
         /\ NoCallFailed(req[p]) /\ NoCallFailed(req[q])
         /\ req[p].today = req[q].today
         /\ \E i, j \in 1..Len(attendance) :
              /\ i # j
              /\ SameKey(attendance[i], attendance[j])
              /\ attendance[i].student_id = req[p].student_id
              /\ attendance[i].created_at = req[p].today
              /\ attendance[j].created_at = req[p].today

\* ----------------------------------------------------------- registration
RowsBy(r) == {i \in DOMAIN students : students[i].by = r}

\* C4 as stated: a POST /api/student with all four fields always yields a
\* student record with a non-null identifier; one that omits a field is
\* answered 400 without any store call.
C4_AllFieldsYieldStudent ==
    \A r \in Reqs :
      req[r].kind = "student" =>
        /\ (req[r].missing = NULL /\ req[r].pc = "done") => req[r].student # NULL
        /\ req[r].missing # NULL =>
             req[r].pc = "done" /\ req[r].status = 400 /\ req[r].calls = 0

\* C4 as amended: a POST /api/student with all four fields whose insert the
\* store accepts has a student row of its own with a non-null identifier; when
\* the store fails the insert the request ends 500 after that one call and has
\* no row; a request that omits a field is answered 400, has made no store
\* call (students table and both buckets untouched) and has no row.
C4_RegistrationOutcome ==
    \A r \in Reqs :
      req[r].kind = "student" =>
        /\ req[r].missing # NULL =>
             /\ req[r].pc = "done" /\ req[r].status = 400
             /\ req[r].calls = 0 /\ req[r].student = NULL /\ RowsBy(r) = {}
        /\ (req[r].missing = NULL /\ req[r].pc # "reg_insert") =>
             IF "reg_insert" \in req[r].failedAt
               THEN /\ req[r].pc = "done" /\ req[r].status = 500
                    /\ req[r].calls = 1 /\ req[r].student = NULL /\ RowsBy(r) = {}
               ELSE /\ req[r].student # NULL
                    /\ \E i \in RowsBy(r) : students[i].id = req[r].student
                    /\ Cardinality(RowsBy(r)) = 1

\* One request was refused for a missing field, another registered a student.
C4_Witness ==
    \E p, q \in Reqs :
      /\ req[p].kind = "student" /\ req[p].missing # NULL /\ req[p].status = 400
      /\ req[q].kind = "student" /\ req[q].missing = NULL
      /\ req[q].pc = "done" /\ req[q].ok = "true" /\ req[q].student # NULL
      /\ Len(students) = 1

\* The photo of the request is the object its photo_url names.
PhotoStored(q) ==
    /\ q.photo_url = getFileUrl(PHOTO_BUCKET, PhotoPath(rev, q.student))
    /\ [path |-> PhotoPath(rev, q.student), bytes |-> q.photo] \in photos

NoPhotoObject(q) ==
    \A o \in photos : o.path # PhotoPath(rev, q.student)

Registered(q) == q.kind = "student" /\ q.pc = "done" /\ q.ok = "true"

\* C5 as stated (on revision index): in every registration that ends ok:true,
\* a supplied photo gives a non-null photo_url naming the object that holds
\* the uploaded bytes, and no photo gives a null photo_url and no object in
\* the photo bucket.
C5_PhotoUrl ==
    rev = "index" =>
      \A r \in Reqs :
        Registered(req[r]) =>
          IF req[r].photo # NULL
            THEN req[r].photo_url # NULL /\ PhotoStored(req[r])
            ELSE req[r].photo_url = NULL /\ NoPhotoObject(req[r])

\* C5 as amended: in every registration that ends ok:true, a supplied photo
\* whose upload succeeded gives a non-null photo_url naming the object that
\* holds the uploaded bytes; a request without a photo never reaches the photo
\* upload, keeps photo_url null and leaves no object in the photo bucket.
C5_PhotoUrlWhenUploaded ==
    \A r \in Reqs :
      req[r].kind = "student" =>
        /\ (Registered(req[r]) /\ req[r].photo # NULL
            /\ "photo_upload" \notin req[r].failedAt)
             => req[r].photo_url # NULL /\ PhotoStored(req[r])
        /\ req[r].photo = NULL =>
             /\ req[r].pc \notin {"photo_upload", "update_photo"}
             /\ req[r].photo_url = NULL
             /\ NoPhotoObject(req[r])

C5_Witness ==
    \E r \in Reqs :
      /\ Registered(req[r]) /\ req[r].photo # NULL
      /\ "photo_upload" \notin req[r].failedAt
      /\ PhotoStored(req[r])

\* C6 (on revision index, for registrations without a photo): once an upstream
\* call of a request has failed the request makes no further upstream call and
\* ends with status 500; it never ends ok:true.
C6_FirstFailureAborts ==
    rev = "index" =>
      \A r \in Reqs :
        (req[r].kind = "student" /\ req[r].photo = NULL /\ req[r].failedAt # {})
          => /\ req[r].afterFail = 0
             /\ req[r].pc = "done" /\ req[r].status = 500 /\ req[r].ok # "true"

\* C9 (on revision part_000): a registration that ends ok:true after its photo
\* upload failed has a null photo_url, and a registration whose QR upload
\* failed ends with status 500, not ok:true, its student row not updated.
C9_PhotoSoftQrFatal ==
    rev = "part_000" =>
      \A r \in Reqs :
        (req[r].kind = "student" /\ req[r].pc = "done") =>
          /\ (req[r].ok = "true" /\ "photo_upload" \in req[r].failedAt)
               => req[r].photo_url = NULL
          /\ "qr_upload" \in req[r].failedAt =>
               /\ req[r].status = 500 /\ req[r].ok # "true"
               /\ \A i \in RowsBy(r) : students[i].updates = 0

\* C10 (its safety part): every student row was inserted by one registration
\* request, has been updated at most once, and has been updated exactly once
\* when that registration has ended ok:true with no failed call.
C10_InsertedOnceUpdatedOnce ==
    \A i \in DOMAIN students :
      /\ req[students[i].by].kind = "student"
      /\ req[students[i].by].student = students[i].id
      /\ students[i].updates <= 1
      /\ (Registered(req[students[i].by]) /\ NoCallFailed(req[students[i].by]))
           => students[i].updates = 1

\* C11 (on revision part_001b): in POST /api/attendance validation comes
\* before authorization and both before any store call: a request without a
\* student identifier is answered 400 whatever its credential, and a request
\* with a student identifier and a wrong credential is answered 403 without
\* having made a store call.
C11_ValidationThenAuthorization ==
    rev = "part_001b" =>
      \A r \in Reqs :
        req[r].kind = "attendance" =>
          /\ req[r].student_id = NULL =>
               req[r].pc = "done" /\ req[r].status = 400 /\ req[r].calls = 0
          /\ (req[r].student_id # NULL /\ WrongCred(req[r])) =>
               req[r].pc = "done" /\ req[r].status = 403 /\ req[r].calls = 0

\* Records made through GET /api/attendance/mark for a student on a UTC day.
ScannerRecords(sid, day) ==
    {i \in 1..Len(attendance) :
        /\ attendance[i].student_id = sid
        /\ attendance[i].lecturer = EXTERNAL_SCANNER
        /\ UTCDay(attendance[i].created_at) = day}

\* C12 (on revision index): a GET /api/attendance/mark whose pin is absent or
\* wrong is answered with the confirmation form and makes no store call; with
\* a matching pin the record (lecturer 'external-scanner') is inserted only if
\* the student has none that day, so the store holds at most one such record
\* per student and day.
C12_MarkInsertsAtMostOnce ==
    rev = "index" =>
      /\ \A r \in Reqs :
           (req[r].kind = "mark" /\ req[r].student_id # NULL /\ WrongCred(req[r]))
             => /\ req[r].pc = "done" /\ req[r].status = 200
                /\ req[r].error = "Confirm attendance" /\ req[r].calls = 0
      /\ \A sid \in StudentIds, day \in 0..UTCDay(now) :
           Cardinality(ScannerRecords(sid, day)) <= 1

\* The two filters give different answers for a record made at c and a request
\* made at t.
FiltersDisagree(c, t) == InLocalDayRange(c, t) # FromUTCDate(c, t)

\* C13: the range filter selects the records of the server's local day of the
\* request and the date-prefix filter those made on or after the request's UTC
\* day, so for a stored record and a request time the two disagree exactly when
\* "same local day" and "UTC day not earlier" differ; they are not equivalent.
C13_FiltersNotEquivalent ==
    \A i \in 1..Len(attendance), t \in 0..now :
      FiltersDisagree(attendance[i].created_at, t)
        <=> ((LocalDay(attendance[i].created_at) = LocalDay(t))
               # (UTCDay(attendance[i].created_at) >= UTCDay(t)))

\* A server off UTC, a stored record of the student and a later request for
\* that student on which the two filters disagree.
C13_Witness ==
    /\ tz # 0
    /\ \E r \in Reqs, i \in 1..Len(attendance) :
         /\ req[r].kind = "attendance" /\ req[r].pc = "check"
         /\ attendance[i].student_id = req[r].student_id
         /\ attendance[i].created_at <= req[r].today
         /\ FiltersDisagree(attendance[i].created_at, req[r].today)

\* The photo of the request is in the photo bucket.
PhotoKept(q) ==
    [path |-> PhotoPath(rev, q.student), bytes |-> q.photo] \in photos

\* C14: a registration that ends 500 after its student insert succeeded leaves
\* the inserted row in the students table, with null photo_url and null
\* qr_code_url, and leaves a photo it has uploaded in the photo bucket.
C14_NoRollback ==
    \A r \in Reqs :
      (/\ req[r].kind = "student" /\ req[r].pc = "done"
       /\ req[r].status = 500 /\ req[r].student # NULL)
        => /\ \E i \in RowsBy(r) :
                /\ students[i].id = req[r].student
                /\ students[i].photo_url = NULL
                /\ students[i].qr_code_url = NULL
           /\ (/\ req[r].photo # NULL
               /\ "photo_upload" \notin req[r].failedAt)
                => PhotoKept(req[r])

\* C15 (on revision index): when a registration has ended ok:true the stored
\* student row has the photo_url and the qr_code_url of the student returned
\* in the response.
C15_StoredAsReturned ==
    rev = "index" =>
      \A r \in Reqs :
        Registered(req[r]) =>
          \E i \in RowsBy(r) :
            /\ students[i].id = req[r].student
            /\ students[i].photo_url = req[r].photo_url
            /\ students[i].qr_code_url = req[r].qr_code_url
====
